---- MODULE Spec2Model ----
(***************************************************************************)
(* Smart-ATS-Pro-Elite: the two Streamlit applications of the repository, *)
(* src/app.py ("app") and src/Core Engine/enhanced_app_integration.py     *)
(* ("elite"), as a state machine of script runs over the session state,   *)
(* together with the pure scoring and dictionary functions they call.     *)
(*                                                                         *)
(* A Streamlit script runs top to bottom once per user interaction.  A    *)
(* run is modelled as the sequence of its sections (pc), each section one *)
(* action; between runs (pc = "idle") the user changes one widget or      *)
(* clicks one button that the last run put on the page.  st.rerun() ends  *)
(* the run at once (pc = "rerun") and a new run follows with no click.    *)
(***************************************************************************)
EXTENDS Integers, Sequences, FiniteSets, TLC

VARIABLES
    variant,      \* "app" (src/app.py) or "elite" (enhanced_app_integration.py)
    ss,           \* st.session_state / SessionManager data
    wid,          \* widget values held by the browser between runs
    pc,           \* position of the script run
    clicked,      \* the button whose click triggered this run ("none" if no button)
    cur_tab,      \* SmartATSProElite.current_tab, read in __init__
    msgs,         \* messages shown by this run
    calls,        \* collaborator calls made by this run
    page,         \* controls and sections this run has rendered
    extract_out,  \* outcome of pdf_processor.extract_text in this run
    clock,        \* number of analyzer calls so far (stands for the result identity and datetime.now())
    fn,           \* pure-function harness: which function is applied
    fn_text,      \* pure-function harness: text argument
    fn_a,         \* pure-function harness: first str argument, character by character
    fn_b,         \* pure-function harness: second str argument
    fn_base,      \* pure-function harness: base analysis argument
    fn_depth,     \* pure-function harness: analysis_depth argument
    fn_prefs,     \* pure-function harness: the stored analysis_preferences
    fn_out        \* pure-function harness: the result

vars == <<variant, ss, wid, pc, clicked, cur_tab, msgs, calls, page, extract_out, clock,
          fn, fn_text, fn_a, fn_b, fn_base, fn_depth, fn_prefs, fn_out>>

uiVars == <<variant, ss, wid, pc, clicked, cur_tab, msgs, calls, page, extract_out, clock>>

fnVars == <<fn, fn_text, fn_a, fn_b, fn_base, fn_depth, fn_prefs, fn_out>>

-----------------------------------------------------------------------------
(* Bounds *)

\* most runs (maximal stretches of one character class) in a text of the harness
MaxRuns == 2

\* most analyzer calls in a behaviour
MaxAnalyses == 2

\* most characters of a text drawn character by character
MaxChars == 5

\* most characters of each text of a pair drawn character by character
MaxPairChars == 3

\* most words of a text built from words
MaxWords == 50

-----------------------------------------------------------------------------
(* Text.  A text is a sequence of runs [ch, n]: n >= 1 copies of character *)
(* ch.  "a" stands for a letter, "7" for a digit, "_" for the underscore,  *)
(* " " for whitespace, "@" for itself and "#" for any other character.     *)

Chars == {"a", "7", "_", " ", "@", "#"}

RunLens == {1, 4, 60, 500}

TextRun == [ch : Chars, n : RunLens]

TextsUpTo(k) == UNION {[1..m -> TextRun] : m \in 0..k}

EmptyText == <<>>

\* Python truthiness of a str
Truthy(text) == Len(text) > 0

\* len(text)
RECURSIVE StrLen(_)
StrLen(text) == IF text = <<>> THEN 0 ELSE Head(text).n + StrLen(Tail(text))

\* \w, \d, \s of the re module
IsWordChar(c) == c \in {"a", "7", "_"}

IsDigit(c) == c = "7"

IsSpace(c) == c = " "

\* re.search(r'\b\d{4}\b', text): a maximal stretch of word characters that is four digits
SearchYear(text) ==
    \E i \in 1..Len(text) : \E j \in i..Len(text) :
        /\ \A k \in i..j : IsDigit(text[k].ch)
        /\ StrLen(SubSeq(text, i, j)) = 4
        /\ (i = 1 \/ ~IsWordChar(text[i-1].ch))
        /\ (j = Len(text) \/ ~IsWordChar(text[j+1].ch))

\* re.search(r'@', text)
SearchAt(text) == \E i \in 1..Len(text) : text[i].ch = "@"

\* len(re.findall(r'[^\w\s]', text))
RECURSIVE CountSpecial(_)
CountSpecial(text) ==
    IF text = <<>> THEN 0
    ELSE (IF IsWordChar(Head(text).ch) \/ IsSpace(Head(text).ch) THEN 0 ELSE Head(text).n)
         + CountSpecial(Tail(text))

-----------------------------------------------------------------------------
(* calculate_quick_ats_score *)

\* The module's import statements: "re" is not among them.
ReImported == FALSE

Returned(v) == [raised |-> FALSE, value |-> v]

\* an exception leaves the function: no value (value is a filler)
Raised == [raised |-> TRUE, value |-> 0 - 1]

Max(a, b) == IF a >= b THEN a ELSE b

\* The body as written.  count > len * 0.1 is 10 * count > len: 0.1 as a double
\* is above one tenth, so the product never rounds below len / 10.
QuickScoreBody(text) ==
    LET s1 == IF StrLen(text) < 500 THEN 100 - 20 ELSE 100
        s2 == IF ~SearchYear(text) THEN s1 - 15 ELSE s1
        s3 == IF ~SearchAt(text) THEN s2 - 10 ELSE s2
        s4 == IF 10 * CountSpecial(text) > StrLen(text) THEN s3 - 10 ELSE s3
    IN  Max(0, s4)

\* The first use of re (line 551) raises NameError when re is not imported.
calculate_quick_ats_score(text) ==
    IF ReImported THEN Returned(QuickScoreBody(text)) ELSE Raised

-----------------------------------------------------------------------------
(* Dictionaries.  A dict is a function from its keys to values; a value is *)
(* abstracted to the name of what produced it.                             *)

EmptyDict == [k \in {} |-> "none"]

\* d.update(e) and {**d, **e}: the keys of e win
DictUpdate(d, e) ==
    [k \in (DOMAIN d) \cup (DOMAIN e) |-> IF k \in DOMAIN e THEN e[k] ELSE d[k]]

\* d[key] = value
DictSet(d, key, value) ==
    [k \in (DOMAIN d) \cup {key} |-> IF k = key THEN value ELSE d[k]]

-----------------------------------------------------------------------------
(* EnhancedAnalyzer (src/app.py) *)

DeepDive == "Deep Dive"

Depths == {"Standard", DeepDive}

EnhancedKeys ==
    {"industry_insights", "experience_adjustments", "optimization_roadmap",
     "competitive_analysis", "ats_simulation"}

DeepKeys ==
    {"sentiment_analysis", "readability_score", "uniqueness_score",
     "impact_words", "weak_phrases", "quantification_opportunities"}

\* the dict _perform_deep_analysis returns
perform_deep_analysis ==
    [k \in DeepKeys |->
        CASE k = "sentiment_analysis" -> "_analyze_sentiment"
          [] k = "readability_score" -> "_calculate_readability"
          [] k = "uniqueness_score" -> "_calculate_uniqueness"
          [] k = "impact_words" -> "_extract_impact_words"
          [] k = "weak_phrases" -> "_identify_weak_phrases"
          [] OTHER -> "_find_quantification_opportunities"]

\* the five entries written after **base_analysis
EnhancedEntries ==
    [k \in EnhancedKeys |->
        CASE k = "industry_insights" -> "_get_industry_insights"
          [] k = "experience_adjustments" -> "_adjust_for_experience"
          [] k = "optimization_roadmap" -> "_create_optimization_roadmap"
          [] k = "competitive_analysis" -> "_perform_competitive_analysis"
          [] OTHER -> "_simulate_ats_processing"]

\* base_analysis after lines 76-78
DeepUpdated(base_analysis, analysis_depth) ==
    IF analysis_depth = DeepDive
    THEN DictUpdate(base_analysis, perform_deep_analysis)
    ELSE base_analysis

\* mutant: the base analysis wins over the five entries
analyze_base_wins(base_analysis, analysis_depth) ==
    DictUpdate(EnhancedEntries, DeepUpdated(base_analysis, analysis_depth))

\* lines 62-90: {**base_analysis, the five entries}
analyze_with_industry_context(base_analysis, analysis_depth) ==
    DictUpdate(DeepUpdated(base_analysis, analysis_depth), EnhancedEntries)

-----------------------------------------------------------------------------
(* What the analyzers outside src/ may return: any dict whose values they  *)
(* produced themselves ("base").                                           *)

BaseOnlyKeys == {"match_percentage", "matched_keywords"}

MarketKey == "market_intelligence"

InterviewKey == "interview_preparation"

BaseDict(keys) == [k \in keys |-> "base"]

-----------------------------------------------------------------------------
(* The session and the widgets *)

Variants == {"app", "elite"}

\* tab_config, in its order
Tabs ==
    <<"resume_analysis", "resume_builder", "market_intelligence",
      "interview_prep", "analytics_dashboard", "goal_tracking">>

TabKeys == {Tabs[i] : i \in 1..Len(Tabs)}

TabIndex(t) == CHOOSE i \in 1..Len(Tabs) : Tabs[i] = t

None == "none"

\* the resume texts and the job description the user works with
TextA == <<[ch |-> "a", n |-> 500], [ch |-> " ", n |-> 1], [ch |-> "7", n |-> 4]>>

TextB == <<[ch |-> "a", n |-> 60], [ch |-> "@", n |-> 1], [ch |-> "a", n |-> 4]>>

\* what the user types into the edit box: another text, or nothing
TypedTexts == {EmptyText, TextB}

JobText == <<[ch |-> "a", n |-> 60]>>

\* the PDF files the user has
Files == {"resume.pdf", "scan.pdf", "broken.pdf"}

\* PDFProcessor.extract_text: text, empty text for a PDF without a text
\* layer, or an exception
ExtractText(file) ==
    CASE file = "resume.pdf" -> [raised |-> FALSE, text |-> TextA]
      [] file = "scan.pdf" -> [raised |-> FALSE, text |-> EmptyText]
      [] OTHER -> [raised |-> TRUE, text |-> EmptyText]

NoResult == [present |-> FALSE, id |-> 0, data |-> EmptyDict]

NoPreferences ==
    [stored |-> FALSE, include_market_data |-> TRUE, include_interview_prep |-> TRUE,
     competitive_analysis |-> FALSE]

\* the keys SessionManager holds, none of them set
FreshSession ==
    [resume_text |-> EmptyText, is_edited |-> FALSE, file_name |-> None,
     analysis_result |-> NoResult, analysis_timestamp |-> 0, rescore_count |-> 0,
     analysis_preferences |-> NoPreferences, resume_versions |-> 0,
     confirm_clear |-> FALSE, current_tab |-> None]

\* SessionManager.clear(): the data it manages is gone; whether the keys the
\* application writes to st.session_state itself (confirm_clear, current_tab)
\* go with it depends on SessionManager.
SessionClear(s, all) ==
    IF all THEN FreshSession
    ELSE [FreshSession EXCEPT !.confirm_clear = s.confirm_clear,
                              !.current_tab = s.current_tab]

\* SessionManager.increment(key)
SessionIncrement(s) == [s EXCEPT !.rescore_count = @ + 1]

\* mutant: the results shown whatever the session holds
HasResultAlways(s) == TRUE

\* the truthiness test of session.get('analysis_result')
HasResult(s) == s.analysis_result.present

InitialWidgets ==
    [uploaded_file |-> None, edit_value |-> EmptyText, edit_default |-> EmptyText,
     job_description |-> EmptyText, analysis_depth |-> "Standard",
     include_market_data |-> TRUE, include_interview_prep |-> TRUE,
     competitive_analysis |-> FALSE]

\* what the analyzers outside src/ return to the applications
UiBases == {BaseDict(BaseOnlyKeys), BaseDict(BaseOnlyKeys \cup {MarketKey, "readability_score"})}

UiInit ==
    /\ variant \in Variants
    /\ ss = FreshSession
    /\ wid = InitialWidgets
    /\ pc = "start"
    /\ clicked = None
    /\ cur_tab = Tabs[1]
    /\ msgs = {}
    /\ calls = {}
    /\ page = {}
    /\ extract_out = None
    /\ clock = 0

\* the result of the harness before the call
NoTone ==
    [tone_score |-> 0, positive_indicators |-> 0, weak_indicators |-> 0,
     overall_tone |-> None]

NotCalled == [called |-> FALSE, score |-> Raised, dict |-> EmptyDict, tone |-> NoTone]

\* the harness is not running
FnIdle ==
    /\ fn = None
    /\ fn_text = EmptyText
    /\ fn_a = <<>>
    /\ fn_b = <<>>
    /\ fn_base = EmptyDict
    /\ fn_depth = "Standard"
    /\ fn_prefs = NoPreferences
    /\ fn_out = NotCalled

\* the applications are not running
UiIdle ==
    /\ variant = None
    /\ ss = FreshSession
    /\ wid = InitialWidgets
    /\ pc = "off"
    /\ clicked = None
    /\ cur_tab = Tabs[1]
    /\ msgs = {}
    /\ calls = {}
    /\ page = {}
    /\ extract_out = None
    /\ clock = 0

-----------------------------------------------------------------------------
(* The start of a run *)

\* st.session_state.get('current_tab', 'resume_analysis')
StoredTab(s) == IF s.current_tab = None THEN "resume_analysis" ELSE s.current_tab

\* app.py lines 43-491 and SmartATSProElite.__init__, run() up to the navigation
StartRun ==
    /\ pc = "start"
    /\ msgs' = {}
    /\ calls' = {}
    /\ extract_out' = None
    /\ IF variant = "elite"
       THEN /\ cur_tab' = StoredTab(ss)
            /\ page' = {}
            /\ pc' = "nav"
       ELSE /\ cur_tab' = cur_tab
            /\ page' = {"sidebar"}
            /\ pc' = "upload"
    /\ UNCHANGED <<variant, ss, wid, clicked, clock, fnVars>>

\* st.rerun(): the script starts over, no button reads as clicked
Rerun ==
    /\ pc = "rerun"
    /\ pc' = "start"
    /\ clicked' = None
    /\ UNCHANGED <<variant, ss, wid, cur_tab, msgs, calls, page, extract_out, clock, fnVars>>

-----------------------------------------------------------------------------
(* SmartATSProElite.create_main_navigation and run() *)

\* mutant: every tab key routed to the first section
SectionOfFirst(tab_key) == "resume_analysis"

\* the section render_tab_content and run() choose for a tab key
SectionOf(tab_key) == tab_key

\* st.session_state['current_tab'] = tab_key; st.rerun()
SwitchTab ==
    /\ ss' = [ss EXCEPT !.current_tab = clicked]
    /\ calls' = calls \cup {"st.rerun"}
    /\ pc' = "rerun"
    /\ UNCHANGED <<page, msgs>>

\* the loop over tab_config up to and including the current tab: a clicked
\* button of an earlier tab, or of the current tab, is met before the content.
\* The content of the resume analysis tab starts with the sidebar (lines
\* 154-160) and goes on with the upload tab.
CreateMainNavigation ==
    /\ pc = "nav"
    /\ IF clicked \in TabKeys /\ TabIndex(clicked) <= TabIndex(cur_tab)
       THEN SwitchTab
       ELSE /\ page' = page \cup {SectionOf(cur_tab)}
                    \cup (IF SectionOf(cur_tab) = "resume_analysis" THEN {"sidebar"} ELSE {})
            /\ pc' = IF SectionOf(cur_tab) = "resume_analysis" THEN "upload" ELSE "nav_rest"
            /\ UNCHANGED <<ss, msgs, calls>>
    /\ UNCHANGED <<variant, wid, clicked, cur_tab, extract_out, clock, fnVars>>

\* the rest of the loop: the buttons of the tabs after the current one
CreateMainNavigationRest ==
    /\ pc = "nav_rest"
    /\ IF clicked \in TabKeys
       THEN SwitchTab
       ELSE /\ page' = page \cup {"nav"}
            /\ pc' = "dispatch"
            /\ UNCHANGED <<ss, msgs, calls>>
    /\ UNCHANGED <<variant, wid, clicked, cur_tab, extract_out, clock, fnVars>>

\* run(), lines 91-106: the section of the current tab is rendered a second
\* time.  The resume analysis section creates its widgets without keys, and
\* Streamlit refuses a second widget with the same generated id
\* (DuplicateWidgetID): the run ends there, before any handler of the second
\* copy and before the footer.
RunDispatch ==
    /\ pc = "dispatch"
    /\ IF SectionOf(cur_tab) = "resume_analysis"
       THEN /\ msgs' = msgs \cup {"DuplicateWidgetID"}
            /\ page' = page
       ELSE /\ msgs' = msgs
            /\ page' = page \cup {SectionOf(cur_tab), "footer"}
    /\ pc' = "idle"
    /\ UNCHANGED <<variant, ss, wid, clicked, cur_tab, calls, extract_out, clock, fnVars>>

-----------------------------------------------------------------------------
(* The upload tab *)

\* mutant: the extracted text stored without the test
UploadedTextAlways(old, extracted) == extracted

\* if resume_text: session.set('resume_text', resume_text)
UploadedText(old, extracted) == IF Truthy(extracted) THEN extracted ELSE old

\* render_resume_preview, reached in the elite variant only: it ends in
\* calculate_quick_ats_score, inside the try of render_upload_section
PreviewRaises(text) == variant = "elite" /\ calculate_quick_ats_score(text).raised

\* app.py lines 500-525; render_upload_section
UploadSection ==
    /\ pc = "upload"
    /\ LET file == wid.uploaded_file
           got == ExtractText(file)
           named == [ss EXCEPT !.file_name = file]
       IN  IF file = None
           THEN /\ ss' = ss
                /\ msgs' = msgs
                /\ calls' = calls
                /\ extract_out' = None
                /\ page' = page \cup {"uploader"}
                /\ pc' = "edit"
           ELSE IF got.raised
           THEN /\ ss' = named
                /\ calls' = calls \cup {"extract_text"}
                /\ extract_out' = "raised"
                /\ page' = page \cup {"uploader"}
                /\ IF variant = "elite"
                   THEN /\ msgs' = msgs \cup {"Error processing file"}
                        /\ pc' = "edit"
                   ELSE /\ msgs' = msgs \cup {"uncaught exception"}
                        /\ pc' = "idle"
           ELSE /\ ss' = [named EXCEPT !.resume_text = UploadedText(@, got.text)]
                /\ calls' = calls \cup {"extract_text"}
                /\ extract_out' = IF Truthy(got.text) THEN "text" ELSE "empty"
                /\ pc' = "edit"
                /\ IF ~Truthy(got.text)
                   THEN /\ msgs' = msgs \cup {"Failed to extract text from PDF"}
                        /\ page' = page \cup {"uploader"}
                   ELSE IF PreviewRaises(got.text)
                   THEN /\ msgs' = msgs \cup {"Successfully processed", "Error processing file"}
                        /\ page' = page \cup {"uploader"}
                   ELSE /\ msgs' = msgs \cup {"Successfully processed"}
                        /\ page' = page \cup {"uploader", "preview"}
    /\ UNCHANGED <<variant, wid, clicked, cur_tab, clock, fnVars>>

-----------------------------------------------------------------------------
(* The edit tab *)

\* st.text_area(value=session.get('resume_text', '')) without a key: the
\* widget is identified by its arguments, so it holds what the user typed
\* for as long as the default is the one it was created with
EditBoxValue(w, default) == IF default # w.edit_default THEN default ELSE w.edit_value

\* mutant: the edit box stored without the test
EditedTextAlways(old, input) == input

\* if resume_text_input: session.set('resume_text', resume_text_input)
EditedText(old, input) == IF Truthy(input) THEN input ELSE old

\* if resume_text_input: session.set('is_edited', True)
EditedFlag(old, input) == IF Truthy(input) THEN TRUE ELSE old

\* app.py lines 527-543; render_edit_section
EditSection ==
    /\ pc = "edit"
    /\ LET input == EditBoxValue(wid, ss.resume_text)
       IN  /\ wid' = [wid EXCEPT !.edit_default = ss.resume_text, !.edit_value = input]
           /\ ss' = [ss EXCEPT !.resume_text = EditedText(@, input),
                               !.is_edited = EditedFlag(@, input)]
    /\ page' = page \cup {"edit_box"}
    /\ pc' = IF variant = "elite" THEN "versions" ELSE "actions"
    /\ UNCHANGED <<variant, clicked, cur_tab, msgs, calls, extract_out, clock, fnVars>>

-----------------------------------------------------------------------------
(* render_version_comparison *)

\* len(versions) < 2
TooFewVersions(s) == s.resume_versions < 2

VersionComparison ==
    /\ pc = "versions"
    /\ IF TooFewVersions(ss)
       THEN /\ msgs' = msgs
                    \cup {"Upload or edit multiple resume versions to enable comparison"}
            /\ page' = page
       ELSE /\ msgs' = msgs
            /\ page' = page \cup {"version_selectors", "compare"}
    /\ pc' = "actions"
    /\ UNCHANGED <<variant, ss, wid, clicked, cur_tab, calls, extract_out, clock, fnVars>>

-----------------------------------------------------------------------------
(* The action center *)

\* mutant: the job description not tested
CanAnalyzeResumeOnly(s, job_description) == Truthy(s.resume_text)

\* if session.get('resume_text') and job_description
CanAnalyze(s, job_description) == Truthy(s.resume_text) /\ Truthy(job_description)

\* session.set('analysis_result', ...) with the result of the n-th analyzer call
StoreResult(s, n, data) ==
    [s EXCEPT !.analysis_result = [present |-> TRUE, id |-> n, data |-> data]]

\* session.set('analysis_timestamp', datetime.now())
StoreTimestamp(s, n) == [s EXCEPT !.analysis_timestamp = n]

\* the rest of the script is not run after st.rerun()
Done(s) == [ss |-> s, rerun |-> TRUE]

Continue(s) == [ss |-> s, rerun |-> FALSE]

\* app.py lines 559-576, the body of the Analyze Resume handler
AppAnalyze(s, base, analysis_depth, n) ==
    Done(StoreTimestamp(StoreResult(s, n, analyze_with_industry_context(base, analysis_depth)), n))

\* app.py lines 582-599, the body of the Re-analyze handler
AppReanalyze(s, base, analysis_depth, n) ==
    Done(SessionIncrement(StoreResult(s, n, analyze_with_industry_context(base, analysis_depth))))

\* the buttons app.py draws in the action center
AppButtons == {"analyze", "reanalyze", "clear"}

\* app.py lines 550-612
AppActionCenter ==
    /\ pc = "actions"
    /\ variant = "app"
    /\ \E base \in UiBases, all \in BOOLEAN :
        LET able == CanAnalyze(ss, wid.job_description)
            after ==
                CASE clicked = "analyze" /\ able ->
                        AppAnalyze(ss, base, wid.analysis_depth, clock + 1)
                  [] clicked = "reanalyze" /\ able ->
                        AppReanalyze(ss, base, wid.analysis_depth, clock + 1)
                  [] clicked = "clear" -> Done(SessionClear(ss, all))
                  [] OTHER -> Continue(ss)
            analysed == clicked \in {"analyze", "reanalyze"} /\ able
        IN  /\ ss' = after.ss
            /\ clock' = IF analysed THEN clock + 1 ELSE clock
            /\ calls' = calls
                    \cup (IF analysed THEN {"analyze_with_industry_context"} ELSE {})
                    \cup (IF clicked = "reanalyze" /\ able THEN {"session.increment"} ELSE {})
                    \cup (IF clicked = "clear" THEN {"session.clear"} ELSE {})
                    \cup (IF after.rerun THEN {"st.rerun"} ELSE {})
            /\ msgs' = msgs
                    \cup (IF clicked = "analyze" /\ able THEN {"Analysis Complete"} ELSE {})
                    \cup (IF clicked = "reanalyze" /\ able THEN {"Re-analysis Complete"} ELSE {})
                    \cup (IF clicked = "analyze" /\ ~able
                          THEN {"Please provide both resume and job description!"} ELSE {})
            /\ page' = IF after.rerun THEN page
                       ELSE page \cup AppButtons
                                 \cup (IF HasResult(ss) THEN {"quick_stats"} ELSE {})
            /\ pc' = IF after.rerun THEN "rerun" ELSE "results"
    /\ UNCHANGED <<variant, wid, clicked, cur_tab, extract_out, fnVars>>

\* mutant: the two preference keys mixed up
PrefGetSwapped(prefs, key) ==
    IF ~prefs.stored THEN TRUE
    ELSE IF key = "include_market_data" THEN prefs.include_interview_prep
    ELSE prefs.include_market_data

\* preferences.get(key, True) on session.get('analysis_preferences', {})
PrefGet(prefs, key) ==
    IF ~prefs.stored THEN TRUE
    ELSE IF key = "include_market_data" THEN prefs.include_market_data
    ELSE prefs.include_interview_prep

\* perform_comprehensive_analysis, lines 393-409: the analyzer's result with
\* the two optional entries
WithOptionalEntries(base, prefs) ==
    LET r1 == IF PrefGet(prefs, "include_market_data")
              THEN DictSet(base, MarketKey, "generate_market_insights")
              ELSE base
    IN  IF PrefGet(prefs, "include_interview_prep")
        THEN DictSet(r1, InterviewKey, "generate_interview_preparation_plan")
        ELSE r1

\* perform_comprehensive_analysis: it ends in st.rerun(), so nothing that
\* follows the call in the caller is run
perform_comprehensive_analysis(s, base, n) ==
    Done(StoreTimestamp(StoreResult(s, n, WithOptionalEntries(base, s.analysis_preferences)), n))

\* lines 335-340: the Re-analyze handler
EliteReanalyze(s, base, n) ==
    LET r == perform_comprehensive_analysis(s, base, n)
    IN  IF r.rerun THEN r ELSE Continue(SessionIncrement(r.ss))

\* lines 350-354
StorePreferences(s, w) ==
    [s EXCEPT !.analysis_preferences =
        [stored |-> TRUE, include_market_data |-> w.include_market_data,
         include_interview_prep |-> w.include_interview_prep,
         competitive_analysis |-> w.competitive_analysis]]

\* mutant: no confirmation asked for
ClearConfirmedAlways(s) == TRUE

\* if st.session_state.get('confirm_clear')
ClearConfirmed(s) == s.confirm_clear

\* lines 365-371: the Clear All handler
ClearAll(s, all) ==
    IF ClearConfirmed(s)
    THEN Done(SessionClear(s, all))
    ELSE Continue([s EXCEPT !.confirm_clear = TRUE])

\* the buttons render_action_center draws
EliteButtons == {"analyze", "quick", "reanalyze", "save", "clear"}

\* render_action_center
EliteActionCenter ==
    /\ pc = "actions"
    /\ variant = "elite"
    /\ \E base \in UiBases, all \in BOOLEAN :
        LET able == CanAnalyze(ss, wid.job_description)
            first ==
                CASE clicked = "analyze" /\ able ->
                        perform_comprehensive_analysis(ss, base, clock + 1)
                  [] clicked = "reanalyze" /\ able -> EliteReanalyze(ss, base, clock + 1)
                  [] OTHER -> Continue(ss)
            after ==
                IF first.rerun THEN first
                ELSE IF clicked = "clear" THEN ClearAll(StorePreferences(first.ss, wid), all)
                ELSE Continue(StorePreferences(first.ss, wid))
            analysed == clicked \in {"analyze", "reanalyze"} /\ able
            cleared == clicked = "clear" /\ ClearConfirmed(ss)
        IN  /\ ss' = after.ss
            /\ clock' = IF analysed THEN clock + 1 ELSE clock
            /\ calls' = calls
                    \cup (IF analysed
                          THEN {"analyze_resume_comprehensive", "record_analysis"} ELSE {})
                    \cup (IF clicked = "reanalyze" /\ able /\ ~first.rerun
                          THEN {"session.increment"} ELSE {})
                    \cup (IF clicked = "save" THEN {"export_session_data"} ELSE {})
                    \cup (IF cleared THEN {"session.clear"} ELSE {})
                    \cup (IF after.rerun THEN {"st.rerun"} ELSE {})
            /\ msgs' = msgs
                    \cup (IF analysed THEN {"Analysis Complete"} ELSE {})
                    \cup (IF clicked = "analyze" /\ ~able
                          THEN {"Please provide both resume and job description!"} ELSE {})
                    \cup (IF clicked = "quick" /\ Truthy(ss.resume_text)
                          THEN {"Quick analysis feature"} ELSE {})
                    \cup (IF clicked = "quick" /\ ~Truthy(ss.resume_text)
                          THEN {"Please upload or paste your resume first!"} ELSE {})
                    \cup (IF clicked = "save" THEN {"Session data saved successfully!"} ELSE {})
                    \cup (IF clicked = "clear" /\ ~ClearConfirmed(ss)
                          THEN {"Click again to confirm clearing all data"} ELSE {})
            /\ page' = IF after.rerun THEN page ELSE page \cup EliteButtons \cup {"options"}
            /\ pc' = IF after.rerun THEN "rerun" ELSE "results"
    /\ UNCHANGED <<variant, wid, clicked, cur_tab, extract_out, fnVars>>

-----------------------------------------------------------------------------
(* The results *)

\* app.py lines 615-617; render_resume_analysis_section lines 179-180
ResultsDisplay ==
    /\ pc = "results"
    /\ page' = IF HasResult(ss) THEN page \cup {"results"} ELSE page
    /\ pc' = IF variant = "elite" THEN "nav_rest" ELSE "idle"
    /\ UNCHANGED <<variant, ss, wid, clicked, cur_tab, msgs, calls, extract_out, clock, fnVars>>

-----------------------------------------------------------------------------
(* The user, between runs: one widget changed or one button clicked, which *)
(* starts a run.  Only what the last run put on the page can be used.      *)

Interact(w, button) ==
    /\ pc = "idle"
    /\ wid' = w
    /\ clicked' = button
    /\ pc' = "start"
    /\ UNCHANGED <<variant, ss, cur_tab, msgs, calls, page, extract_out, clock, fnVars>>

UserUpload(file) ==
    /\ "uploader" \in page
    /\ file # wid.uploaded_file
    /\ Interact([wid EXCEPT !.uploaded_file = file], None)

UserEdit(text) ==
    /\ "edit_box" \in page
    /\ text # wid.edit_value
    /\ Interact([wid EXCEPT !.edit_value = text], None)

UserSetJobDescription(text) ==
    /\ "sidebar" \in page
    /\ text # wid.job_description
    /\ Interact([wid EXCEPT !.job_description = text], None)

UserSetDepth(depth) ==
    /\ "sidebar" \in page
    /\ variant = "app"
    /\ depth # wid.analysis_depth
    /\ Interact([wid EXCEPT !.analysis_depth = depth], None)

UserToggleMarket ==
    /\ "options" \in page
    /\ Interact([wid EXCEPT !.include_market_data = ~@], None)

UserToggleInterview ==
    /\ "options" \in page
    /\ Interact([wid EXCEPT !.include_interview_prep = ~@], None)

UserClick(button) ==
    /\ button \in page
    /\ button \in {"analyze", "reanalyze"} => clock < MaxAnalyses
    /\ Interact(wid, button)

UserSwitchTab(tab_key) ==
    /\ "nav" \in page
    /\ Interact(wid, tab_key)

-----------------------------------------------------------------------------
(* The applications *)

UiNext ==
    \/ StartRun
    \/ Rerun
    \/ CreateMainNavigation
    \/ CreateMainNavigationRest
    \/ RunDispatch
    \/ UploadSection
    \/ EditSection
    \/ VersionComparison
    \/ AppActionCenter
    \/ EliteActionCenter
    \/ ResultsDisplay
    \/ \E file \in Files \cup {None} : UserUpload(file)
    \/ \E text \in TypedTexts : UserEdit(text)
    \/ \E text \in {EmptyText, JobText} : UserSetJobDescription(text)
    \/ \E depth \in Depths : UserSetDepth(depth)
    \/ UserToggleMarket
    \/ UserToggleInterview
    \/ \E button \in AppButtons \cup EliteButtons : UserClick(button)
    \/ \E tab_key \in TabKeys : UserSwitchTab(tab_key)

Init == UiInit /\ FnIdle

Next == UiNext

Spec == Init /\ [][Next]_vars

-----------------------------------------------------------------------------
(* Python's float: an IEEE 754 double.  A non-negative value is held as    *)
(* its integer part and the 80 bits after the binary point, in five limbs  *)
(* of 16 bits; an operation is the exact result rounded to 53 significant  *)
(* bits, ties to even.                                                     *)

\* the bits of the significand of a double
Precision == 53

LimbBits == 16

\* 2^LimbBits
Base == 65536

\* limbs after the binary point: the last bit of every value met lies above
\* the last limb
Limbs == 5

RECURSIVE Pow2(_)
Pow2(k) == IF k = 0 THEN 1 ELSE 2 * Pow2(k - 1)

\* the number of bits of a natural number
RECURSIVE BitLength(_)
BitLength(i) == IF i = 0 THEN 0 ELSE 1 + BitLength(i \div 2)

ZeroFrac == [j \in 1..Limbs |-> 0]

FloatOfInt(i) == [int |-> i, frac |-> ZeroFrac]

\* the limb that holds the p-th bit after the point
LimbOf(p) == (p - 1) \div LimbBits + 1

\* the p-th bit after the point
FracBit(frac, p) == (frac[LimbOf(p)] \div Pow2(LimbBits * LimbOf(p) - p)) % 2

\* the position after the point of the first 1, 0 when there is none
LeadPos(frac) ==
    IF frac = ZeroFrac THEN 0
    ELSE LET j == CHOOSE j \in 1..Limbs : frac[j] # 0 /\ \A i \in 1..(j - 1) : frac[i] = 0
         IN  LimbBits * j - BitLength(frac[j]) + 1

\* the bits after position keep cleared
Truncate(frac, keep) ==
    [j \in 1..Limbs |->
        IF LimbBits * j <= keep THEN frac[j]
        ELSE IF LimbBits * (j - 1) >= keep THEN 0
        ELSE frac[j] - (frac[j] % Pow2(LimbBits * j - keep))]

\* amount added to limb j (limb 0 is the integer part), carries included
RECURSIVE AddToLimb(_, _, _)
AddToLimb(x, j, amount) ==
    IF j = 0 THEN [x EXCEPT !.int = @ + amount]
    ELSE LET v == x.frac[j] + amount
         IN  IF v < Base THEN [x EXCEPT !.frac[j] = v]
             ELSE AddToLimb([x EXCEPT !.frac[j] = v - Base], j - 1, 1)

\* one unit added at position keep after the point
AddUlp(x, keep) ==
    IF keep = 0 THEN AddToLimb(x, 0, 1)
    ELSE AddToLimb(x, LimbOf(keep), Pow2(LimbBits * LimbOf(keep) - keep))

\* the double nearest to the exact value x (plus something below its last
\* bit when sticky), ties to even
RoundToDouble(x, sticky) ==
    LET lead == LeadPos(x.frac)
        keep == IF x.int > 0 THEN Precision - BitLength(x.int)
                ELSE IF lead = 0 THEN 0
                ELSE lead + Precision - 1
    IN  IF keep >= LimbBits * Limbs \/ (x.int = 0 /\ lead = 0) THEN x
        ELSE LET kept == [int |-> x.int, frac |-> Truncate(x.frac, keep)]
                 guard == FracBit(x.frac, keep + 1)
                 rest == sticky \/ Truncate(x.frac, keep + 1) # x.frac
                 lsb == IF keep > 0 THEN FracBit(x.frac, keep) ELSE x.int % 2
             IN  IF guard = 1 /\ (rest \/ lsb = 1) THEN AddUlp(kept, keep) ELSE kept

\* what is left of r / n after j limbs of the quotient, for r < n
RECURSIVE DivRem(_, _, _)
DivRem(r, n, j) == IF j = 0 THEN r ELSE (DivRem(r, n, j - 1) * Base) % n

\* a / b for integers a >= 0, b > 0
FloatDiv(a, b) ==
    RoundToDouble([int |-> a \div b,
                   frac |-> [j \in 1..Limbs |-> (DivRem(a % b, b, j - 1) * Base) \div b]],
                  DivRem(a % b, b, Limbs) # 0)

\* the carry out of limb j when the limbs are multiplied by k
RECURSIVE MulCarry(_, _, _)
MulCarry(frac, k, j) ==
    IF j > Limbs THEN 0 ELSE (frac[j] * k + MulCarry(frac, k, j + 1)) \div Base

\* the exact product of x and the integer k
TimesInt(x, k) ==
    [int |-> x.int * k + MulCarry(x.frac, k, 1),
     frac |-> [j \in 1..Limbs |-> (x.frac[j] * k + MulCarry(x.frac, k, j + 1)) % Base]]

\* the exact half of x
Half(x) ==
    [int |-> x.int \div 2,
     frac |-> [j \in 1..Limbs |->
                  (IF j = 1 THEN x.int % 2 ELSE x.frac[j - 1] % 2) * (Base \div 2)
                  + x.frac[j] \div 2]]

\* x * k for a float x and an integer k
FloatMulInt(x, k) == RoundToDouble(TimesInt(x, k), FALSE)

\* x * 1.5
FloatMulOneAndHalf(x) == RoundToDouble(Half(TimesInt(x, 3)), FALSE)

IsWhole(x) == x.frac = ZeroFrac

\* x <= k for a float x and an integer k
FloatLeqInt(x, k) == x.int < k \/ (x.int = k /\ IsWhole(x))

\* x - k for an integer k <= x
FloatSubInt(x, k) == RoundToDouble([int |-> x.int - k, frac |-> x.frac], FALSE)

\* k - x for an integer k >= x
IntSubFloat(k, x) ==
    RoundToDouble(
        IF IsWhole(x) THEN FloatOfInt(k - x.int)
        ELSE AddToLimb([int |-> k - 1 - x.int,
                        frac |-> [j \in 1..Limbs |-> Base - 1 - x.frac[j]]], Limbs, 1),
        FALSE)

\* int(x)
FloatTrunc(x) == x.int

-----------------------------------------------------------------------------
(* Python's str for the functions that look at words: a sequence of        *)
(* one-character strings.                                                  *)

LowerLetters ==
    <<"a", "b", "c", "d", "e", "f", "g", "h", "i", "j", "k", "l", "m", "n", "o", "p", "q", "r", "s", "t", "u", "v", "w", "x", "y", "z">>

UpperLetters ==
    <<"A", "B", "C", "D", "E", "F", "G", "H", "I", "J", "K", "L", "M", "N", "O", "P", "Q", "R", "S", "T", "U", "V", "W", "X", "Y", "Z">>

Space == " "

Newline == "\n"

Dot == "."

StrChars ==
    {LowerLetters[i] : i \in 1..26} \cup {UpperLetters[i] : i \in 1..26}
        \cup {Space, Newline, Dot}

\* str.lower(), character by character
LowerOf ==
    [c \in StrChars |->
        IF \E i \in 1..26 : UpperLetters[i] = c
        THEN LowerLetters[CHOOSE i \in 1..26 : UpperLetters[i] = c]
        ELSE c]

\* str.lower()
StrLower(text) == [i \in 1..Len(text) |-> LowerOf[text[i]]]

\* str.upper(), used to build inputs
StrUpper(text) ==
    [i \in 1..Len(text) |->
        IF \E k \in 1..26 : LowerLetters[k] = text[i]
        THEN UpperLetters[CHOOSE k \in 1..26 : LowerLetters[k] = text[i]]
        ELSE text[i]]

IsWhite(c) == c \in {Space, Newline}

\* str.split(): the places where a word starts
WordStarts(text) ==
    {i \in 1..Len(text) : ~IsWhite(text[i]) /\ (i = 1 \/ IsWhite(text[i - 1]))}

\* str.split(): the word that starts at i, up to the next whitespace or the end
WordAt(text, i) ==
    SubSeq(text, i,
           CHOOSE j \in i..Len(text) :
               /\ j = Len(text) \/ IsWhite(text[j + 1])
               /\ \A k \in i..j : ~IsWhite(text[k]))

\* len(text.split())
WordCount(text) == Cardinality(WordStarts(text))

\* set(text.split())
WordSet(text) == {WordAt(text, i) : i \in WordStarts(text)}

\* len(text.split('.')): a segment before each '.' and one after the last
SegmentCount(text) == Cardinality({i \in 1..Len(text) : text[i] = Dot}) + 1

\* word in text
Contains(text, word) ==
    \E i \in 1..(Len(text) - Len(word) + 1) :
        \A k \in 1..Len(word) : text[i + k - 1] = word[k]

\* the places where word occurs in text
Occurrences(text, word) ==
    {i \in 1..(Len(text) - Len(word) + 1) : \A k \in 1..Len(word) : text[i + k - 1] = word[k]}

Min(a, b) == IF a <= b THEN a ELSE b

-----------------------------------------------------------------------------
(* SmartATSProElite.calculate_keyword_density *)

\* int(len(common_words) / len(jd_words) * 100)
DensityOf(common, all) == FloatTrunc(FloatMulInt(FloatDiv(common, all), 100))

calculate_keyword_density(resume_text, job_description) ==
    LET resume_words == WordSet(StrLower(resume_text))
        jd_words == WordSet(StrLower(job_description))
        common_words == resume_words \cap jd_words
    IN  IF jd_words = {} THEN 0
        ELSE DensityOf(Cardinality(common_words), Cardinality(jd_words))

-----------------------------------------------------------------------------
(* EnhancedAnalyzer._analyze_sentiment *)

positive_words ==
    <<<<"a", "c", "h", "i", "e", "v", "e", "d">>,
      <<"i", "m", "p", "r", "o", "v", "e", "d">>,
      <<"i", "n", "c", "r", "e", "a", "s", "e", "d">>,
      <<"s", "u", "c", "c", "e", "s", "s", "f", "u", "l">>,
      <<"l", "e", "d">>,
      <<"m", "a", "n", "a", "g", "e", "d">>,
      <<"d", "e", "v", "e", "l", "o", "p", "e", "d">>>>

weak_words ==
    <<<<"r", "e", "s", "p", "o", "n", "s", "i", "b", "l", "e", " ", "f", "o", "r">>,
      <<"d", "u", "t", "i", "e", "s", " ", "i", "n", "c", "l", "u", "d", "e", "d">>,
      <<"w", "o", "r", "k", "e", "d", " ", "o", "n">>,
      <<"h", "e", "l", "p", "e", "d", " ", "w", "i", "t", "h">>>>

\* mutant: every occurrence of the word counted
IndicatorPerOccurrence(text, word) == Cardinality(Occurrences(StrLower(text), word))

\* 1 for word in words if word in text.lower()
Indicator(text, word) == IF Contains(StrLower(text), word) THEN 1 ELSE 0

\* sum(1 for word in words if word in text.lower())
RECURSIVE CountIndicators(_, _)
CountIndicators(text, words) ==
    IF words = <<>> THEN 0
    ELSE Indicator(text, Head(words)) + CountIndicators(text, Tail(words))

Strong == "Strong"

NeedsImprovement == "Needs Improvement"

analyze_sentiment(text) ==
    LET positive_count == CountIndicators(text, positive_words)
        weak_count == CountIndicators(text, weak_words)
    IN  [tone_score |-> Min(100, (positive_count - weak_count) * 10 + 70),
         positive_indicators |-> positive_count,
         weak_indicators |-> weak_count,
         overall_tone |-> IF positive_count > weak_count THEN Strong ELSE NeedsImprovement]

-----------------------------------------------------------------------------
(* EnhancedAnalyzer._calculate_readability and _calculate_uniqueness *)

\* max(len(sentences), 1)
Sentences(text) == Max(SegmentCount(text), 1)

\* int(max(0, min(100, 100 - (avg_words_per_sentence - 15) * 2)))
ReadabilityOf(words, sentences) ==
    LET avg_words_per_sentence == FloatDiv(words, sentences)
    IN  IF FloatLeqInt(avg_words_per_sentence, 15)
        THEN 100
        ELSE LET over == FloatMulInt(FloatSubInt(avg_words_per_sentence, 15), 2)
             IN  IF FloatLeqInt(over, 100) THEN FloatTrunc(IntSubFloat(100, over)) ELSE 0

calculate_readability(text) == ReadabilityOf(WordCount(text), Sentences(text))

\* min(100, int(len(unique_words) / total_words * 100 * 1.5))
UniquenessOf(unique, total) ==
    Min(100, FloatTrunc(FloatMulOneAndHalf(FloatMulInt(FloatDiv(unique, total), 100))))

calculate_uniqueness(text) ==
    LET unique_words == WordSet(StrLower(text))
        total_words == WordCount(text)
    IN  IF total_words > 0 THEN UniquenessOf(Cardinality(unique_words), total_words)
        ELSE Min(100, 0)

-----------------------------------------------------------------------------
(* The pure functions: the arguments are drawn in the initial state and    *)
(* the function is applied once.                                           *)

\* every dict the harness passes to analyze_with_industry_context
HarnessBases == {BaseDict(K) : K \in SUBSET (BaseOnlyKeys \cup EnhancedKeys \cup DeepKeys)}

\* every analyzer result the harness hands to perform_comprehensive_analysis
HarnessEliteBases == {BaseDict(K) : K \in SUBSET (BaseOnlyKeys \cup {MarketKey, InterviewKey})}

\* every value of the session's analysis_preferences
HarnessPreferences ==
    [stored : BOOLEAN, include_market_data : BOOLEAN, include_interview_prep : BOOLEAN,
     competitive_analysis : BOOLEAN]

\* the characters the short texts are drawn from
ShortChars == {"a", "b", "B", Space, Dot}

\* the characters the short texts of a pair are drawn from
PairChars == {"a", "b", "B", Space}

\* every text of at most k of the characters
StringsUpTo(chars, k) == UNION {[1..m -> chars] : m \in 0..k}

\* the i-th of the two-letter words "aa", "ab", ...
Word(i) == <<LowerLetters[(i - 1) \div 26 + 1], LowerLetters[((i - 1) % 26) + 1]>>

\* the first k of them, one space between two words
DistinctWords(k) ==
    [p \in 1..(3 * k - 1) |->
        IF p % 3 = 0 THEN Space ELSE Word((p - 1) \div 3 + 1)[((p - 1) % 3) + 1]]

\* the word "ab" k times, a space after each, then dots '.' characters
RepeatedWord(k, dots) ==
    [p \in 1..(3 * k + dots) |->
        IF p > 3 * k THEN Dot
        ELSE IF p % 3 = 0 THEN Space
        ELSE Word(2)[((p - 1) % 3) + 1]]

\* the texts, a space after each
RECURSIVE JoinWords(_)
JoinWords(words) ==
    IF words = <<>> THEN <<>>
    ELSE Head(words) \o <<Space>> \o JoinWords(Tail(words))

\* a word that holds 'led' without being it
Handled == <<"h", "a", "n", "d", "l", "e", "d">>

TextStyles == {"plain", "upper", "twice", "inside"}

\* a resume text with the positive words of the set, the first weak phrases
\* and nothing else that counts, but for the style "inside"
SentimentText(positive, weak, style) ==
    LET IsIn(w) == w \in positive
        plain == JoinWords(SelectSeq(positive_words, IsIn) \o SubSeq(weak_words, 1, weak))
    IN  CASE style = "upper" -> StrUpper(plain)
          [] style = "twice" -> plain \o plain
          [] style = "inside" -> plain \o Handled
          [] OTHER -> plain

\* the pairs (resume_text, job_description) of the harness: short texts, and
\* job descriptions of n distinct words with resumes that hold c of them
DensityInputs ==
    (StringsUpTo(PairChars, MaxPairChars) \X StringsUpTo(PairChars, MaxPairChars))
        \cup {<<DistinctWords(c[1]), DistinctWords(c[2])>> :
                 c \in {d \in (0..MaxWords) \X (0..MaxWords) : d[1] <= d[2]}}

SentimentInputs ==
    {SentimentText(positive, weak, style) :
        positive \in SUBSET {positive_words[i] : i \in 1..Len(positive_words)},
        weak \in 0..Len(weak_words),
        style \in TextStyles}

\* short texts, and texts of up to MaxWords words in one to three segments
WordInputs ==
    StringsUpTo(ShortChars, MaxChars)
        \cup {RepeatedWord(k, dots) : k \in 0..MaxWords, dots \in 0..2}

FnInit ==
    /\ UiIdle
    /\ fn_out = NotCalled
    /\ \/ /\ fn = "calculate_quick_ats_score"
          /\ fn_text \in TextsUpTo(MaxRuns)
          /\ fn_a = <<>>
          /\ fn_b = <<>>
          /\ fn_base = EmptyDict
          /\ fn_depth = "Standard"
          /\ fn_prefs = NoPreferences
       \/ /\ fn = "analyze_with_industry_context"
          /\ fn_text = EmptyText
          /\ fn_a = <<>>
          /\ fn_b = <<>>
          /\ fn_base \in HarnessBases
          /\ fn_depth \in Depths
          /\ fn_prefs = NoPreferences
       \/ /\ fn = "perform_comprehensive_analysis"
          /\ fn_text = TextA
          /\ fn_a = <<>>
          /\ fn_b = <<>>
          /\ fn_base \in HarnessEliteBases
          /\ fn_depth = "Standard"
          /\ fn_prefs \in HarnessPreferences
       \/ /\ fn = "calculate_keyword_density"
          /\ \E pair \in DensityInputs :
                /\ fn_a = pair[1]
                /\ fn_b = pair[2]
          /\ fn_text = EmptyText
          /\ fn_base = EmptyDict
          /\ fn_depth = "Standard"
          /\ fn_prefs = NoPreferences
       \/ /\ fn = "analyze_sentiment"
          /\ fn_a \in SentimentInputs
          /\ fn_b = <<>>
          /\ fn_text = EmptyText
          /\ fn_base = EmptyDict
          /\ fn_depth = "Standard"
          /\ fn_prefs = NoPreferences
       \/ /\ fn \in {"calculate_readability", "calculate_uniqueness"}
          /\ fn_a \in WordInputs
          /\ fn_b = <<>>
          /\ fn_text = EmptyText
          /\ fn_base = EmptyDict
          /\ fn_depth = "Standard"
          /\ fn_prefs = NoPreferences

CallQuickScore ==
    /\ fn = "calculate_quick_ats_score"
    /\ ~fn_out.called
    /\ fn_out' = [NotCalled EXCEPT !.called = TRUE,
                                   !.score = calculate_quick_ats_score(fn_text)]
    /\ UNCHANGED <<fn, fn_text, fn_a, fn_b, fn_base, fn_depth, fn_prefs, uiVars>>

CallAnalyzeWithContext ==
    /\ fn = "analyze_with_industry_context"
    /\ ~fn_out.called
    /\ fn_out' = [NotCalled EXCEPT !.called = TRUE,
                                   !.dict = analyze_with_industry_context(fn_base, fn_depth)]
    /\ UNCHANGED <<fn, fn_text, fn_a, fn_b, fn_base, fn_depth, fn_prefs, uiVars>>

\* the session perform_comprehensive_analysis is called in
HarnessSession ==
    [FreshSession EXCEPT !.resume_text = fn_text, !.analysis_preferences = fn_prefs]

\* the data of the analysis_result it stores
CallComprehensiveAnalysis ==
    /\ fn = "perform_comprehensive_analysis"
    /\ ~fn_out.called
    /\ fn_out' = [NotCalled EXCEPT
                     !.called = TRUE,
                     !.dict = perform_comprehensive_analysis(HarnessSession, fn_base, 1)
                                  .ss.analysis_result.data]
    /\ UNCHANGED <<fn, fn_text, fn_a, fn_b, fn_base, fn_depth, fn_prefs, uiVars>>

CallKeywordDensity ==
    /\ fn = "calculate_keyword_density"
    /\ ~fn_out.called
    /\ fn_out' = [NotCalled EXCEPT
                     !.called = TRUE,
                     !.score = Returned(calculate_keyword_density(fn_a, fn_b))]
    /\ UNCHANGED <<fn, fn_text, fn_a, fn_b, fn_base, fn_depth, fn_prefs, uiVars>>

CallAnalyzeSentiment ==
    /\ fn = "analyze_sentiment"
    /\ ~fn_out.called
    /\ fn_out' = [NotCalled EXCEPT !.called = TRUE, !.tone = analyze_sentiment(fn_a)]
    /\ UNCHANGED <<fn, fn_text, fn_a, fn_b, fn_base, fn_depth, fn_prefs, uiVars>>

CallReadability ==
    /\ fn = "calculate_readability"
    /\ ~fn_out.called
    /\ fn_out' = [NotCalled EXCEPT !.called = TRUE,
                                   !.score = Returned(calculate_readability(fn_a))]
    /\ UNCHANGED <<fn, fn_text, fn_a, fn_b, fn_base, fn_depth, fn_prefs, uiVars>>

CallUniqueness ==
    /\ fn = "calculate_uniqueness"
    /\ ~fn_out.called
    /\ fn_out' = [NotCalled EXCEPT !.called = TRUE,
                                   !.score = Returned(calculate_uniqueness(fn_a))]
    /\ UNCHANGED <<fn, fn_text, fn_a, fn_b, fn_base, fn_depth, fn_prefs, uiVars>>

FnNext ==
    \/ CallQuickScore
    \/ CallAnalyzeWithContext
    \/ CallComprehensiveAnalysis
    \/ CallKeywordDensity
    \/ CallAnalyzeSentiment
    \/ CallReadability
    \/ CallUniqueness

SpecFn == FnInit /\ [][FnNext]_vars

-----------------------------------------------------------------------------
(* Properties *)

AnalyzerCalls == {"analyze_with_industry_context", "analyze_resume_comprehensive"}

BothRequired == "Please provide both resume and job description!"

\* C1: in both variants the action center, met with a click on Analyze
\* Resume, calls the analyzer and stores a new analysis_result exactly when
\* the session's resume_text and the job description are both non-empty;
\* otherwise it shows 'Please provide both resume and job description!',
\* calls no analyzer and leaves analysis_result and analysis_timestamp as
\* they were.
C1_AnalyzeNeedsBoth ==
    [][(pc = "actions" /\ clicked = "analyze") =>
         IF Len(ss.resume_text) > 0 /\ Len(wid.job_description) > 0
         THEN /\ calls' \cap AnalyzerCalls # {}
              /\ ss'.analysis_result.present
              /\ ss'.analysis_result.id = clock + 1
         ELSE /\ BothRequired \in msgs'
              /\ calls' \cap AnalyzerCalls = {}
              /\ ss'.analysis_result = ss.analysis_result
              /\ ss'.analysis_timestamp = ss.analysis_timestamp]_vars

\* a click on Analyze Resume without a job description was refused and the
\* earlier analysis is still stored
C1_Witness ==
    /\ pc = "results"
    /\ clicked = "analyze"
    /\ BothRequired \in msgs
    /\ Len(ss.resume_text) > 0
    /\ Len(wid.job_description) = 0
    /\ ss.analysis_result.present

ConfirmWarning == "Click again to confirm clearing all data"

\* C2: in the elite variant the action center, met with a click on Clear
\* All while confirm_clear is not set, calls no session.clear(), changes
\* nothing of the session but confirm_clear (set) and the preferences every
\* rendering of the action center stores, shows 'Click again to confirm
\* clearing all data' and requests no rerun; session.clear() is called only
\* in the action center met with a Clear All click while confirm_clear is
\* set, and that step requests a rerun.
C2_ClearNeedsConfirmation ==
    [][variant = "elite" =>
         /\ (pc = "actions" /\ clicked = "clear" /\ ~ss.confirm_clear) =>
                /\ "session.clear" \notin calls'
                /\ ss' = [ss EXCEPT !.confirm_clear = TRUE,
                                    !.analysis_preferences = ss'.analysis_preferences]
                /\ ConfirmWarning \in msgs'
                /\ pc' # "rerun"
         /\ ("session.clear" \in calls' /\ "session.clear" \notin calls) =>
                /\ pc = "actions"
                /\ clicked = "clear"
                /\ ss.confirm_clear
                /\ pc' = "rerun"]_vars

\* one click on Clear All has been answered by the warning and the resume
\* text and the analysis are still there
C2_Witness ==
    /\ variant = "elite"
    /\ pc = "results"
    /\ clicked = "clear"
    /\ ConfirmWarning \in msgs
    /\ ss.confirm_clear
    /\ Len(ss.resume_text) > 0
    /\ ss.analysis_result.present

\* C3 as claimed: in both variants the action center, met with a click on
\* Re-analyze while resume_text and the job description are non-empty,
\* stores a fresh analysis_result and increases rescore_count by exactly one.
C3_ReanalyzeCounts ==
    [][(pc = "actions" /\ clicked = "reanalyze"
            /\ Len(ss.resume_text) > 0 /\ Len(wid.job_description) > 0) =>
         /\ ss'.analysis_result.present
         /\ ss'.analysis_result.id = clock + 1
         /\ ss'.rescore_count = ss.rescore_count + 1]_vars

\* C4: in the elite variant the stored and the current tab are always among
\* the six keys; a run starts with the stored tab, resume_analysis when
\* none is stored; the navigation, met with a click on the 'Switch to'
\* button of a tab, stores that tab's key and requests a rerun, which leaves
\* the session as it is; and a run that comes to its end has rendered the
\* section of the current tab and of no other.
C4_Tabs ==
    [][variant = "elite" =>
         /\ StoredTab(ss) \in TabKeys /\ StoredTab(ss') \in TabKeys
         /\ cur_tab \in TabKeys /\ cur_tab' \in TabKeys
         /\ pc = "start" =>
                /\ cur_tab' = IF ss.current_tab = None THEN "resume_analysis"
                              ELSE ss.current_tab
         /\ (clicked \in TabKeys /\ pc' = "rerun" /\ pc # "rerun") =>
                /\ ss'.current_tab = clicked
                /\ "st.rerun" \in calls'
         /\ pc' = "dispatch" => clicked \notin TabKeys
         /\ pc = "rerun" => ss' = ss /\ pc' = "start"
         /\ pc' = "idle" =>
                /\ page' \cap TabKeys = {cur_tab'}
                /\ cur_tab' = StoredTab(ss')]_vars

\* the run after a click on 'Switch to Goal Tracking' has ended
C4_Witness ==
    /\ variant = "elite"
    /\ pc = "idle"
    /\ clicked = None
    /\ ss.current_tab = "goal_tracking"
    /\ page \cap TabKeys = {"goal_tracking"}

\* what C5 says calculate_quick_ats_score returns
ClaimedQuickScore(text) ==
    100 - (IF StrLen(text) < 500 THEN 20 ELSE 0)
        - (IF ~SearchYear(text) THEN 15 ELSE 0)
        - (IF ~SearchAt(text) THEN 10 ELSE 0)
        - (IF 10 * CountSpecial(text) > StrLen(text) THEN 10 ELSE 0)

\* C5 as claimed: calculate_quick_ats_score returns, for every resume text,
\* 100 minus 20 if it has fewer than 500 characters, minus 15 if it holds
\* no standalone 4-digit number, minus 10 if it holds no '@', minus 10 if
\* more than 10% of its characters are neither word characters nor
\* whitespace; the result lies between 45 and 100.
C5_QuickScore ==
    (fn = "calculate_quick_ats_score" /\ fn_out.called) =>
        /\ ~fn_out.score.raised
        /\ fn_out.score.value = ClaimedQuickScore(fn_text)
        /\ fn_out.score.value >= 45
        /\ fn_out.score.value <= 100

ExtractFailed == "Failed to extract text from PDF"

ProcessingError == "Error processing file"

\* C6: in both variants the upload section, when extract_text returns empty
\* text, shows 'Failed to extract text from PDF' and leaves resume_text as
\* it was; in the elite variant, when extract_text raises, the section shows
\* 'Error processing file', leaves resume_text as it was and the run goes on.
C6_FailedUploadKeepsText ==
    [][pc = "upload" =>
         /\ extract_out' = "empty" =>
                /\ ExtractFailed \in msgs'
                /\ ss'.resume_text = ss.resume_text
         /\ (variant = "elite" /\ extract_out' = "raised") =>
                /\ ProcessingError \in msgs'
                /\ ss'.resume_text = ss.resume_text
                /\ pc' = "edit"]_vars

\* a PDF without text was uploaded over a stored resume text
C6_Witness ==
    /\ pc = "edit"
    /\ extract_out = "empty"
    /\ ExtractFailed \in msgs
    /\ Len(ss.resume_text) > 0

\* the five entries are in the result, with the values written last
C7_FiveEntries ==
    \A k \in EnhancedKeys :
        k \in DOMAIN fn_out.dict /\ fn_out.dict[k] = EnhancedEntries[k]

\* the six deep-analysis entries are the function's own exactly under 'Deep Dive'
C7_DeepEntries ==
    \A k \in DeepKeys :
        (k \in DOMAIN fn_out.dict /\ fn_out.dict[k] = perform_deep_analysis[k])
            <=> fn_depth = "Deep Dive"

\* the keys of the base analysis in K are in the result with the base's values
C7_PassedThrough(K) ==
    \A k \in K : k \in DOMAIN fn_out.dict /\ fn_out.dict[k] = fn_base[k]

\* C7 as claimed: the result of analyze_with_industry_context holds the
\* five entries (over same-named keys of the base analysis), passes every
\* other key of the base analysis through unchanged, and the six
\* deep-analysis entries are added by it iff analysis_depth is 'Deep Dive'.
C7_Original ==
    (fn = "analyze_with_industry_context" /\ fn_out.called) =>
        /\ C7_FiveEntries
        /\ C7_PassedThrough((DOMAIN fn_base) \ EnhancedKeys)
        /\ C7_DeepEntries

\* C7, amended: as claimed, but under 'Deep Dive' the keys of the base
\* analysis that pass through unchanged are those that are neither among
\* the five entries nor among the six deep-analysis keys.
C7_Amended ==
    (fn = "analyze_with_industry_context" /\ fn_out.called) =>
        /\ C7_FiveEntries
        /\ C7_PassedThrough((DOMAIN fn_base)
               \ (EnhancedKeys \cup (IF fn_depth = "Deep Dive" THEN DeepKeys ELSE {})))
        /\ C7_DeepEntries

\* a 'Deep Dive' over a base analysis that has one of the five keys, one of
\* the six and one of its own
C7_Witness ==
    /\ fn = "analyze_with_industry_context"
    /\ fn_out.called
    /\ fn_depth = "Deep Dive"
    /\ {"ats_simulation", "weak_phrases", "match_percentage"} \subseteq DOMAIN fn_base

\* C8: the analysis_result perform_comprehensive_analysis stores has the
\* market_intelligence entry it makes iff no analysis_preferences are
\* stored or the stored include_market_data is true, and the
\* interview_preparation entry it makes iff no analysis_preferences are
\* stored or the stored include_interview_prep is true.
C8_OptionalEntries ==
    (fn = "perform_comprehensive_analysis" /\ fn_out.called) =>
        /\ (/\ MarketKey \in DOMAIN fn_out.dict
            /\ fn_out.dict[MarketKey] = "generate_market_insights")
               <=> (~fn_prefs.stored \/ fn_prefs.include_market_data)
        /\ (/\ InterviewKey \in DOMAIN fn_out.dict
            /\ fn_out.dict[InterviewKey] = "generate_interview_preparation_plan")
               <=> (~fn_prefs.stored \/ fn_prefs.include_interview_prep)
        /\ \A k \in (DOMAIN fn_base) \ {MarketKey, InterviewKey} :
               k \in DOMAIN fn_out.dict /\ fn_out.dict[k] = fn_base[k]

\* market data asked for, interview questions not
C8_Witness ==
    /\ fn = "perform_comprehensive_analysis"
    /\ fn_out.called
    /\ fn_prefs.stored
    /\ fn_prefs.include_market_data
    /\ ~fn_prefs.include_interview_prep
    /\ MarketKey \in DOMAIN fn_out.dict
    /\ InterviewKey \notin DOMAIN fn_out.dict

\* C9: in both variants the edit section, when the edit box holds non-empty
\* text, sets resume_text to that text and is_edited to True; when the box
\* is empty it leaves resume_text and is_edited as they were.
C9_EditKeepsTextWhenEmpty ==
    [][pc = "edit" =>
         IF Len(wid'.edit_value) > 0
         THEN ss'.resume_text = wid'.edit_value /\ ss'.is_edited
         ELSE ss'.resume_text = ss.resume_text /\ ss'.is_edited = ss.is_edited]_vars

\* the edit box was emptied and the resume text is still stored
C9_Witness ==
    /\ pc \in {"versions", "actions"}
    /\ Len(wid.edit_value) = 0
    /\ Len(ss.resume_text) > 0
    /\ ss.is_edited

CompareNotice == "Upload or edit multiple resume versions to enable comparison"

\* C10 as claimed: in the elite variant, once a resume text has been
\* uploaded and a different one typed into the edit box, resume_versions
\* holds at least two entries and the version selectors are offered instead
\* of the notice.
C10_ComparisonEnabled ==
    (/\ variant = "elite"
     /\ pc = "actions"
     /\ extract_out = "text"
     /\ ss.is_edited
     /\ ss.resume_text # ExtractText(wid.uploaded_file).text) =>
        /\ ss.resume_versions >= 2
        /\ "version_selectors" \in page
        /\ CompareNotice \notin msgs

ResultsHeading == "results"

UploadSuccess == "Successfully processed"

\* C13 as claimed: in the elite variant, when extract_text has returned
\* non-empty text for the uploaded file, the upload section has stored that
\* text as resume_text, shown 'Successfully processed: <name>' and the
\* resume preview with its Quick ATS Score, and shown no error message.
C13_UploadShowsPreview ==
    (/\ variant = "elite"
     /\ pc = "edit"
     /\ extract_out = "text") =>
        /\ ss.resume_text = ExtractText(wid.uploaded_file).text
        /\ UploadSuccess \in msgs
        /\ "preview" \in page
        /\ ProcessingError \notin msgs
        /\ ExtractFailed \notin msgs

\* the distinct lower-cased whitespace-separated words of a text
ClaimedWords(text) == WordSet(StrLower(text))

\* C12 as claimed: calculate_keyword_density returns an integer between 0
\* and 100 for every pair of texts: 0 when the job description has no words,
\* otherwise the floor of 100 times the number of distinct job-description
\* words that also occur in the resume, divided by the number of distinct
\* job-description words; and then it is 100 exactly when every
\* job-description word occurs in the resume.
C12_KeywordDensity ==
    (fn = "calculate_keyword_density" /\ fn_out.called) =>
        LET jd == ClaimedWords(fn_b)
            common == jd \cap ClaimedWords(fn_a)
            density == fn_out.score.value
        IN  /\ ~fn_out.score.raised
            /\ density \in 0..100
            /\ jd = {} => density = 0
            /\ jd # {} =>
                /\ density = (100 * Cardinality(common)) \div Cardinality(jd)
                /\ density = 100 <=> common = jd

\* the words of the list that occur in the lower-cased text
Present(text, words) ==
    {i \in 1..Len(words) : Contains(StrLower(text), words[i])}

\* C14: _analyze_sentiment counts each of the 7 positive words and each of
\* the 4 weak phrases once when it occurs in the lower-cased text, however
\* often it occurs; tone_score is min(100, 70 + 10 * (positive_indicators -
\* weak_indicators)) and lies between 30 and 100; overall_tone is 'Strong'
\* exactly when positive_indicators > weak_indicators, so 'Strong' implies
\* tone_score > 70 and 'Needs Improvement' implies tone_score <= 70.
C14_Sentiment ==
    (fn = "analyze_sentiment" /\ fn_out.called) =>
        LET tone == fn_out.tone
        IN  /\ Len(positive_words) = 7
            /\ Len(weak_words) = 4
            /\ tone.positive_indicators = Cardinality(Present(fn_a, positive_words))
            /\ tone.weak_indicators = Cardinality(Present(fn_a, weak_words))
            /\ tone.tone_score =
                   Min(100, 70 + 10 * (tone.positive_indicators - tone.weak_indicators))
            /\ tone.tone_score \in 30..100
            /\ tone.overall_tone \in {Strong, NeedsImprovement}
            /\ tone.overall_tone = Strong <=>
                   tone.positive_indicators > tone.weak_indicators
            /\ tone.overall_tone = Strong => tone.tone_score > 70
            /\ tone.overall_tone = NeedsImprovement => tone.tone_score <= 70

\* C14: a text in capitals in which three positive words and one weak phrase
\* occur has been scored
C14_Witness ==
    /\ fn = "analyze_sentiment"
    /\ fn_out.called
    /\ fn_a # StrLower(fn_a)
    /\ fn_out.tone.positive_indicators = 3
    /\ fn_out.tone.weak_indicators = 1
    /\ fn_out.tone.tone_score = 90
    /\ fn_out.tone.overall_tone = Strong

\* C15 as claimed: for every text, the empty text and texts without '.'
\* included, _calculate_readability and _calculate_uniqueness return an
\* integer between 0 and 100; _calculate_uniqueness returns 0 for a text
\* with no words and 100 whenever at least two thirds of the words are
\* distinct (case-insensitively); _calculate_readability returns 100
\* whenever the average number of words per '.'-separated segment is at
\* most 15.
C15_ReadabilityUniqueness ==
    /\ (fn = "calculate_readability" /\ fn_out.called) =>
            /\ ~fn_out.score.raised
            /\ fn_out.score.value \in 0..100
            /\ WordCount(fn_a) <= 15 * SegmentCount(fn_a) => fn_out.score.value = 100
    /\ (fn = "calculate_uniqueness" /\ fn_out.called) =>
            /\ ~fn_out.score.raised
            /\ fn_out.score.value \in 0..100
            /\ WordCount(fn_a) = 0 => fn_out.score.value = 0
            /\ (/\ WordCount(fn_a) > 0
                /\ 3 * Cardinality(ClaimedWords(fn_a)) >= 2 * WordCount(fn_a)) =>
                    fn_out.score.value = 100

====
